---- MODULE Spec2Model ----
(***************************************************************************)
(* The natural-language-to-SQL bridge of heyatyar_streamlit_app.py: one    *)
(* run of the page script around the "Ask AI" form (get_llm_response, the  *)
(* extraction and validation of the statement, execute_sql_query, the      *)
(* shaping of the rows, the roster and the final close of the page         *)
(* connection).  Texts are sequences of one-character strings, so that     *)
(* strip(), lower(), startswith(), `in` and the regular expression are     *)
(* computed character by character.  The three record-management forms     *)
(* (add, remove, search) touch none of the variables below.                *)
(***************************************************************************)
EXTENDS Integers, Sequences, FiniteSets, TLC

VARIABLES
  pc,                   \* position of the page script / of get_llm_response
  conn,                 \* the page connection: "none", "open", "closed"
  ask_ai_button,        \* the form was submitted
  ai_question,          \* text of the question
  retries,              \* get_llm_response: local retries
  delay,                \* get_llm_response: local delay
  max_retries,          \* get_llm_response: parameter max_retries
  result,               \* get_llm_response: the value being returned
  events,               \* get_llm_response: completion calls and sleeps of this invocation
  llm_outcome,          \* how get_llm_response ended: "none", "Success", "Exhausted", "Fatal"
  response_from_llm,    \* page: value returned by get_llm_response
  sql_query_to_execute, \* page: the extracted statement
  exec_conn,            \* execute_sql_query: its own connection
  executed,             \* statements handed to execute_sql_query
  store_failed,         \* the store raised sqlite3.Error for the statement
  committed,            \* execute_sql_query committed the transaction
  data,                 \* page: value returned by execute_sql_query
  presentation,         \* what the shaping step displayed
  ui,                   \* status notifications emitted so far (call sites)
  raised,               \* an exception is propagating out of the page script
  roster_rendered       \* the "Current Employee Roster" section ran

vars == <<pc, conn, ask_ai_button, ai_question, retries, delay, max_retries, result, events, llm_outcome, response_from_llm, sql_query_to_execute, exec_conn, executed, store_failed, committed, data, presentation, ui, raised, roster_rendered>>

----------------------------------------------------------------------------
(* Bounds of the model *)

\* largest retry budget tried when get_llm_response is driven directly
MaxAttempts == 5
\* a model text is the concatenation of at most MaxParts chunks
MaxParts == 3
\* a successful statement returns at most MaxRows rows
MaxRows == 2

(* Program constants *)

DefaultMaxRetries == 10
InitialDelay == 2

----------------------------------------------------------------------------
(* Text primitives of Python used by the script *)

Min(S) == CHOOSE x \in S : \A y \in S : x <= y
Max(S) == CHOOSE x \in S : \A y \in S : y <= x

\* the backtick character (a string literal cannot hold it)
Backtick == "BACKTICK"

UpperCase == <<"A", "B", "C", "D", "E", "F", "G", "H", "I", "J", "K", "L", "M", "N", "O", "P", "Q", "R", "S", "T", "U", "V", "W", "X", "Y", "Z">>
LowerCase == <<"a", "b", "c", "d", "e", "f", "g", "h", "i", "j", "k", "l", "m", "n", "o", "p", "q", "r", "s", "t", "u", "v", "w", "x", "y", "z">>

\* whitespace as str.strip() and the pattern \s see it
IsSpace(c) == c \in {" ", "\n", "\t"}

\* str.lower(), one character
Lower(c) == IF \E i \in 1..26 : UpperCase[i] = c THEN LowerCase[CHOOSE i \in 1..26 : UpperCase[i] = c] ELSE c

\* str.lower()
LowerStr(s) == [i \in 1..Len(s) |-> Lower(s[i])]

\* str.strip()
Strip(s) == LET keep == {i \in 1..Len(s) : ~IsSpace(s[i])} IN IF keep = {} THEN <<>> ELSE SubSeq(s, Min(keep), Max(keep))

\* str.startswith(p)
StartsWith(s, p) == Len(s) >= Len(p) /\ SubSeq(s, 1, Len(p)) = p

\* p in s
Contains(s, p) == \E i \in 0..(Len(s) - Len(p)) : SubSeq(s, i + 1, i + Len(p)) = p

\* concatenation of a sequence of texts
RECURSIVE Flatten(_)
Flatten(parts) == IF parts = <<>> THEN <<>> ELSE Head(parts) \o Flatten(Tail(parts))

----------------------------------------------------------------------------
(* re.search(r"```sql\s*(.*?)\s*```", text, re.DOTALL | re.IGNORECASE) *)

\* the literal ``` at position i
FenceAt(s, i) == i >= 1 /\ i + 2 <= Len(s) /\ s[i] = Backtick /\ s[i + 1] = Backtick /\ s[i + 2] = Backtick

\* the literal sql at position i, under re.IGNORECASE
TagAt(s, i) == i >= 1 /\ i + 2 <= Len(s) /\ LowerStr(SubSeq(s, i, i + 2)) = <<"s", "q", "l">>

\* where a greedy \s* started at position i stops
SkipSpace(s, i) == Min({j \in i..(Len(s) + 1) : j = Len(s) + 1 \/ ~IsSpace(s[j])})

\* \s*``` matches at position e
ClosesAt(s, e) == FenceAt(s, SkipSpace(s, e))

\* the pattern matches with its opening ``` at position i
OpensAt(s, i) == FenceAt(s, i) /\ TagAt(s, i + 3) /\ \E e \in SkipSpace(s, i + 6)..(Len(s) + 1) : ClosesAt(s, e)

\* group(1) of the match that opens at i: lazy (.*?) after the greedy \s*
GroupOne(s, i) == LET j == SkipSpace(s, i + 6) IN LET e == Min({x \in j..(Len(s) + 1) : ClosesAt(s, x)}) IN SubSeq(s, j, e - 1)

\* re.search: the leftmost match, or no match
ReSearch(s) == LET starts == {i \in 1..Len(s) : OpensAt(s, i)} IN IF starts = {} THEN [found |-> FALSE, group1 |-> <<>>] ELSE [found |-> TRUE, group1 |-> GroupOne(s, Min(starts))]

----------------------------------------------------------------------------
(* Literals of the script *)

LlmErrorMarker == <<"E", "r", "r", "o", "r", ":", " ", "C", "o", "u", "l", "d", " ", "n", "o", "t", " ", "g", "e", "t", " ", "r", "e", "s", "p", "o", "n", "s", "e", " ", "f", "r", "o", "m", " ", "L", "L", "M">>
FatalPrefix == <<"E", "r", "r", "o", "r", ":", " ", "C", "o", "u", "l", "d", " ", "n", "o", "t", " ", "g", "e", "t", " ", "r", "e", "s", "p", "o", "n", "s", "e", " ", "f", "r", "o", "m", " ", "L", "L", "M", ".", " ", "D", "e", "t", "a", "i", "l", "s", ":", " ">>
ExhaustedPrefix == <<"E", "r", "r", "o", "r", ":", " ", "C", "o", "u", "l", "d", " ", "n", "o", "t", " ", "g", "e", "t", " ", "r", "e", "s", "p", "o", "n", "s", "e", " ", "f", "r", "o", "m", " ", "L", "L", "M", " ", "a", "f", "t", "e", "r", " ", "m", "u", "l", "t", "i", "p", "l", "e", " ", "r", "e", "t", "r", "i", "e", "s", ".", " ", "D", "e", "t", "a", "i", "l", "s", ":", " ">>
ExecErrorMarker == <<"E", "r", "r", "o", "r", " ", "e", "x", "e", "c", "u", "t", "i", "n", "g", " ", "S", "Q", "L", " ", "q", "u", "e", "r", "y">>
ExecErrorPrefix == <<"E", "r", "r", "o", "r", " ", "e", "x", "e", "c", "u", "t", "i", "n", "g", " ", "S", "Q", "L", " ", "q", "u", "e", "r", "y", ":", " ">>
SelectStarPrefix == <<"s", "e", "l", "e", "c", "t", " ", "*", " ", "f", "r", "o", "m", " ", "e", "m", "p", "l", "o", "y", "e", "e">>
StatementVerbs == {<<"s", "e", "l", "e", "c", "t">>, <<"i", "n", "s", "e", "r", "t">>, <<"u", "p", "d", "a", "t", "e">>, <<"d", "e", "l", "e", "t", "e">>}
CanonicalColumns == <<"ID", "NAME", "SALARY", "AGE", "GENDER", "DESIGNATION", "WORKING_HOURS", "MONTHLY_LUNCH_BILL", "BONUS">>

----------------------------------------------------------------------------
(* Inputs *)

\* what the user may have typed in the text area
Questions == {<<>>, <<" ">>, <<"H", "o", "w", " ", "m", "a", "n", "y", " ", "e", "m", "p", "l", "o", "y", "e", "e", "s", "?">>}

\* pieces a completion is made of
Chunks == {<<Backtick, Backtick, Backtick, "s", "q", "l">>, <<Backtick, Backtick, Backtick, "S", "Q", "L", "\n">>, <<Backtick, Backtick, Backtick>>, <<" ">>, <<"S", "E", "L", "E", "C", "T", " ", "*", " ", "F", "R", "O", "M", " ", "E", "M", "P", "L", "O", "Y", "E", "E">>, <<"S", "e", "l", "e", "c", "t", " ", "N", "A", "M", "E", " ", "f", "r", "o", "m", " ", "E", "M", "P", "L", "O", "Y", "E", "E">>, <<"D", "e", "l", "e", "t", "e", " ", "f", "r", "o", "m", " ", "E", "M", "P", "L", "O", "Y", "E", "E">>, <<"S", "u", "r", "e">>, <<"E", "r", "r", "o", "r", ":", " ", "C", "o", "u", "l", "d", " ", "n", "o", "t", " ", "g", "e", "t", " ", "r", "e", "s", "p", "o", "n", "s", "e", " ", "f", "r", "o", "m", " ", "L", "L", "M">>}

RECURSIVE ChunkSeqs(_)
ChunkSeqs(n) == IF n = 0 THEN {<<>>} ELSE LET shorter == ChunkSeqs(n - 1) IN shorter \cup {Append(q, c) : q \in {x \in shorter : Len(x) = n - 1}, c \in Chunks}

\* the texts the completion endpoint may answer with
ModelTexts == {Flatten(q) : q \in ChunkSeqs(MaxParts) \ {<<>>}}

\* exceptions completion() may raise: the class and str(e)
Exceptions == {[kind |-> "RateLimitError", detail |-> <<"q", "u", "o", "t", "a", " ", "e", "x", "c", "e", "e", "d", "e", "d">>], [kind |-> "APIConnectionError", detail |-> <<"c", "o", "n", "n", "e", "c", "t", "i", "o", "n", " ", "r", "e", "s", "e", "t">>], [kind |-> "BadRequestError", detail |-> <<"b", "a", "d", " ", "r", "e", "p", "l", "y", " ", Backtick, Backtick, Backtick, "s", "q", "l", " ", "D", "E", "L", "E", "T", "E", " ", "F", "R", "O", "M", " ", "E", "M", "P", "L", "O", "Y", "E", "E", Backtick, Backtick, Backtick>>]}

----------------------------------------------------------------------------
(* get_llm_response.  Each completion call is one step and each sleep is one  *)
(* step.  With max_retries >= 1 the loop is always left by a return inside   *)
(* it, so the return after the loop is never reached.                        *)

\* one entry of the invocation's log: a completion call and how it ended, or a sleep and its length
Event(op, out, d, msg) == [op |-> op, out |-> out, d |-> d, msg |-> msg]

\* the comparison written with <= : one attempt too many
BudgetLeftInclusive(r, m) == r <= m

\* `while retries < max_retries` and `if retries < max_retries`
BudgetLeft(r, m) == r < m

\* `delay *= 2`
NextDelay(d) == d * 2

\* a handler that retries whatever was raised
RetryableAny(kind) == TRUE

\* `except RateLimitError` is tried before `except Exception`
Retryable(kind) == kind = "RateLimitError"

FatalMessage(detail) == FatalPrefix \o detail
ExhaustedMessage(detail) == ExhaustedPrefix \o detail

\* entry: messages, retries = 0, delay = initial_delay
EnterGetLlmResponse(budget) ==
  /\ retries' = 0
  /\ delay' = InitialDelay
  /\ max_retries' = budget
  /\ result' = <<>>
  /\ events' = <<>>
  /\ llm_outcome' = "none"
  /\ pc' = "attempt"

PageUnchanged == UNCHANGED <<conn, ask_ai_button, ai_question, response_from_llm, sql_query_to_execute, exec_conn, executed, store_failed, committed, data, presentation, raised, roster_rendered>>

\* completion() answers: return response.choices[0].message.content
CompletionSucceeds ==
  /\ pc = "attempt"
  /\ BudgetLeft(retries, max_retries)
  /\ \E text \in ModelTexts :
       /\ result' = text
       /\ events' = Append(events, Event("call", "ok", 0, <<>>))
  /\ ui' = ui \cup {"spinner_attempt"}
  /\ llm_outcome' = "Success"
  /\ pc' = "llm_return"
  /\ UNCHANGED <<retries, delay, max_retries>>
  /\ PageUnchanged

\* completion() raises RateLimitError
CompletionRateLimited ==
  /\ pc = "attempt"
  /\ BudgetLeft(retries, max_retries)
  /\ \E e \in Exceptions :
       /\ Retryable(e.kind)
       /\ events' = Append(events, Event("call", e.kind, 0, e.detail))
       /\ retries' = retries + 1
       /\ IF BudgetLeft(retries + 1, max_retries)
            THEN /\ ui' = ui \cup {"spinner_attempt", "warning_rate_limit"}
                 /\ pc' = "sleep"
                 /\ UNCHANGED <<result, llm_outcome>>
            ELSE /\ ui' = ui \cup {"spinner_attempt", "error_max_retries"}
                 /\ result' = ExhaustedMessage(e.detail)
                 /\ llm_outcome' = "Exhausted"
                 /\ pc' = "llm_return"
  /\ UNCHANGED <<delay, max_retries>>
  /\ PageUnchanged

\* time.sleep(delay); delay *= 2
Sleep ==
  /\ pc = "sleep"
  /\ events' = Append(events, Event("sleep", "", delay, <<>>))
  /\ delay' = NextDelay(delay)
  /\ pc' = "attempt"
  /\ UNCHANGED <<retries, max_retries, result, llm_outcome, ui>>
  /\ PageUnchanged

\* completion() raises anything else
CompletionFails ==
  /\ pc = "attempt"
  /\ BudgetLeft(retries, max_retries)
  /\ \E e \in Exceptions :
       /\ ~Retryable(e.kind)
       /\ events' = Append(events, Event("call", e.kind, 0, e.detail))
       /\ result' = FatalMessage(e.detail)
  /\ ui' = ui \cup {"spinner_attempt", "error_llm"}
  /\ llm_outcome' = "Fatal"
  /\ pc' = "llm_return"
  /\ UNCHANGED <<retries, delay, max_retries>>
  /\ PageUnchanged

\* the function returns to line 288 and its frame is gone
ReturnFromLlm ==
  /\ pc = "llm_return"
  /\ response_from_llm' = result
  /\ retries' = 0
  /\ delay' = 0
  /\ max_retries' = 0
  /\ result' = <<>>
  /\ events' = <<>>
  /\ pc' = "extract"
  /\ UNCHANGED <<conn, ask_ai_button, ai_question, llm_outcome, sql_query_to_execute, exec_conn, executed, store_failed, committed, data, presentation, ui, raised, roster_rendered>>

NoData == [kind |-> "none", text |-> <<>>, rows |-> <<>>]
NoPresentation == [kind |-> "none", value |-> <<>>, headers |-> <<>>, rows |-> <<>>]

\* get_llm_response driven directly with a fake completion call
InitAsk ==
  /\ pc = "attempt"
  /\ conn = "none"
  /\ ask_ai_button = TRUE
  /\ ai_question = <<"H", "o", "w", " ", "m", "a", "n", "y", " ", "e", "m", "p", "l", "o", "y", "e", "e", "s", "?">>
  /\ retries = 0
  /\ delay = InitialDelay
  /\ max_retries \in 1..MaxAttempts
  /\ result = <<>>
  /\ events = <<>>
  /\ llm_outcome = "none"
  /\ response_from_llm = <<>>
  /\ sql_query_to_execute = <<>>
  /\ exec_conn = "none"
  /\ executed = {}
  /\ store_failed = FALSE
  /\ committed = FALSE
  /\ data = NoData
  /\ presentation = NoPresentation
  /\ ui = {}
  /\ raised = FALSE
  /\ roster_rendered = FALSE

NextAsk == CompletionSucceeds \/ CompletionRateLimited \/ Sleep \/ CompletionFails \/ ReturnFromLlm

SpecAsk == InitAsk /\ [][NextAsk]_vars

----------------------------------------------------------------------------
(* The store as execute_sql_query sees it.  The script does not create the   *)
(* EMPLOYEE table; its nine columns are those of the prompt and of the       *)
(* column lists of the page.                                                 *)

\* widths a row may have: up to one more than the nine known columns
Widths == 1..(Len(CanonicalColumns) + 1)

\* values a cell may hold; every value is text here
PlainValue == <<"7">>
CellValues == {PlainValue, <<"E", "r", "r", "o", "r", " ", "e", "x", "e", "c", "u", "t", "i", "n", "g", " ", "S", "Q", "L", " ", "q", "u", "e", "r", "y">>}

\* n rows of width w; one cell of the first row (the NAME column of a full record) holds v
MakeRows(n, w, v) == [r \in 1..n |-> [c \in 1..w |-> IF r = 1 /\ c = (IF w = 1 THEN 1 ELSE 2) THEN v ELSE PlainValue]]

\* what cur.fetchall() may return for a statement the store accepts
RowSets == {<<>>} \cup {MakeRows(n, w, v) : n \in 1..MaxRows, w \in Widths, v \in CellValues}

\* what cur.execute and cur.fetchall may give for the statements the completion
\* texts can hold: SELECT * FROM EMPLOYEE returns full records; the same text run
\* on into the next word names another table or view, of any width; the
\* projection returns one column; DELETE has no rows to fetch; the store accepts
\* nothing else
StoreRows(stmt) ==
  LET low == LowerStr(stmt) IN
    IF low = <<"s", "e", "l", "e", "c", "t", " ", "*", " ", "f", "r", "o", "m", " ", "e", "m", "p", "l", "o", "y", "e", "e">> THEN {rows \in RowSets : \A r \in 1..Len(rows) : Len(rows[r]) = Len(CanonicalColumns)}
    ELSE IF low = <<"s", "e", "l", "e", "c", "t", " ", "*", " ", "f", "r", "o", "m", " ", "e", "m", "p", "l", "o", "y", "e", "e", "s", "u", "r", "e">> THEN RowSets
    ELSE IF low = <<"s", "e", "l", "e", "c", "t", " ", "n", "a", "m", "e", " ", "f", "r", "o", "m", " ", "e", "m", "p", "l", "o", "y", "e", "e">> THEN {rows \in RowSets : \A r \in 1..Len(rows) : Len(rows[r]) = 1}
    ELSE IF low = <<"d", "e", "l", "e", "t", "e", " ", "f", "r", "o", "m", " ", "e", "m", "p", "l", "o", "y", "e", "e">> THEN {<<>>}
    ELSE {}

\* messages of sqlite3.Error
StoreErrors == {<<"n", "e", "a", "r", " ", "\"", "S", "u", "r", "e", "\"", ":", " ", "s", "y", "n", "t", "a", "x", " ", "e", "r", "r", "o", "r">>, <<"d", "a", "t", "a", "b", "a", "s", "e", " ", "i", "s", " ", "l", "o", "c", "k", "e", "d">>}

----------------------------------------------------------------------------
(* str(data) *)

RECURSIVE Join(_, _)
Join(texts, sep) == IF texts = <<>> THEN <<>> ELSE IF Len(texts) = 1 THEN texts[1] ELSE texts[1] \o sep \o Join(Tail(texts), sep)

\* repr of a text value
Repr(v) == <<"'">> \o v \o <<"'">>

\* repr of a tuple: (a, b) and (a,)
ReprRow(row) == <<"(">> \o Join([c \in 1..Len(row) |-> Repr(row[c])], <<",", " ">>) \o (IF Len(row) = 1 THEN <<",">> ELSE <<>>) \o <<")">>

\* str() of what execute_sql_query returned
Str(d) == IF d.kind = "str" THEN d.text ELSE <<"[">> \o Join([r \in 1..Len(d.rows) |-> ReprRow(d.rows[r])], <<",", " ">>) \o <<"]">>

----------------------------------------------------------------------------
(* The page script *)

LlmFrameUnchanged == UNCHANGED <<retries, delay, max_retries, result, events, llm_outcome>>

\* conn = create_connection(database)
CreateConnection ==
  /\ pc = "start"
  /\ conn' = "open"
  /\ pc' = "ai_form"
  /\ UNCHANGED <<ask_ai_button, ai_question, response_from_llm, sql_query_to_execute, exec_conn, executed, store_failed, committed, data, presentation, ui, raised, roster_rendered>>
  /\ LlmFrameUnchanged

\* create_connection returns None: the page shows an error and ends
ConnectionFails ==
  /\ pc = "start"
  /\ ui' = ui \cup {"error_connecting", "error_could_not_connect"}
  /\ pc' = "done"
  /\ UNCHANGED <<conn, ask_ai_button, ai_question, response_from_llm, sql_query_to_execute, exec_conn, executed, store_failed, committed, data, presentation, raised, roster_rendered>>
  /\ LlmFrameUnchanged

\* truth value of a str
Truthy(s) == Len(s) > 0

\* if ask_ai_button and ai_question: get_llm_response(ai_question, prompt_text)
AskAi ==
  /\ pc = "ai_form"
  /\ ask_ai_button
  /\ Truthy(ai_question)
  /\ ui' = ui \cup {"info_getting_answer"}
  /\ EnterGetLlmResponse(DefaultMaxRetries)
  /\ PageUnchanged

\* elif ask_ai_button and not ai_question
WarnNoQuestion ==
  /\ pc = "ai_form"
  /\ ask_ai_button
  /\ ~Truthy(ai_question)
  /\ ui' = ui \cup {"warning_enter_question"}
  /\ pc' = "roster"
  /\ PageUnchanged
  /\ LlmFrameUnchanged

\* the form was not submitted in this run
SkipAiForm ==
  /\ pc = "ai_form"
  /\ ~ask_ai_button
  /\ pc' = "roster"
  /\ UNCHANGED ui
  /\ PageUnchanged
  /\ LlmFrameUnchanged

\* sql_match = re.search(...); group(1).strip() or response_from_llm.strip()
ExtractStatement(text) == LET sql_match == ReSearch(text) IN IF sql_match.found THEN Strip(sql_match.group1) ELSE Strip(text)

\* "Error: Could not get response from LLM" in sql_query_to_execute
IsLlmFailure(stmt) == Contains(stmt, LlmErrorMarker)

\* sql_query_to_execute.lower().startswith(...) for the four verbs
HasStatementVerb(stmt) == \E verb \in StatementVerbs : StartsWith(LowerStr(stmt), verb)

AfterLlmUnchanged == UNCHANGED <<conn, ask_ai_button, ai_question, response_from_llm, store_failed, committed, data, presentation, raised, roster_rendered>>

\* st.error(sql_query_to_execute)
ReportLlmFailure ==
  /\ pc = "extract"
  /\ sql_query_to_execute' = ExtractStatement(response_from_llm)
  /\ IsLlmFailure(sql_query_to_execute')
  /\ ui' = ui \cup {"error_llm_failure"}
  /\ pc' = "roster"
  /\ UNCHANGED <<exec_conn, executed>>
  /\ AfterLlmUnchanged
  /\ LlmFrameUnchanged

\* st.warning("The AI did not return a valid SQL query ...")
WarnInvalidStatement ==
  /\ pc = "extract"
  /\ sql_query_to_execute' = ExtractStatement(response_from_llm)
  /\ ~IsLlmFailure(sql_query_to_execute')
  /\ ~HasStatementVerb(sql_query_to_execute')
  /\ ui' = ui \cup {"warning_invalid_sql"}
  /\ pc' = "roster"
  /\ UNCHANGED <<exec_conn, executed>>
  /\ AfterLlmUnchanged
  /\ LlmFrameUnchanged

\* data = execute_sql_query(...): conn = sqlite3.connect(db); cur = conn.cursor()
CallExecuteSqlQuery ==
  /\ pc = "extract"
  /\ sql_query_to_execute' = ExtractStatement(response_from_llm)
  /\ ~IsLlmFailure(sql_query_to_execute')
  /\ HasStatementVerb(sql_query_to_execute')
  /\ executed' = executed \cup {sql_query_to_execute'}
  /\ exec_conn' = "open"
  /\ pc' = "exec"
  /\ UNCHANGED ui
  /\ AfterLlmUnchanged
  /\ LlmFrameUnchanged

ExecUnchanged == UNCHANGED <<conn, ask_ai_button, ai_question, response_from_llm, sql_query_to_execute, executed, presentation, ui, raised, roster_rendered>>

\* an executor without the finally clause
ExecutorLeavesOpen == "open"

\* finally: conn.close()
ExecutorFinally == "closed"

\* cur.execute(sql); rows = cur.fetchall(); conn.commit(); return rows
ExecuteSucceeds ==
  /\ pc = "exec"
  /\ \E rows \in StoreRows(sql_query_to_execute) : data' = [kind |-> "rows", text |-> <<>>, rows |-> rows]
  /\ committed' = TRUE
  /\ exec_conn' = ExecutorFinally
  /\ pc' = "check_data"
  /\ UNCHANGED store_failed
  /\ ExecUnchanged
  /\ LlmFrameUnchanged

\* except sqlite3.Error as e: return f"Error executing SQL query: {e}"
ExecuteFails ==
  /\ pc = "exec"
  /\ \E e \in StoreErrors : data' = [kind |-> "str", text |-> ExecErrorPrefix \o e, rows |-> <<>>]
  /\ store_failed' = TRUE
  /\ exec_conn' = ExecutorFinally
  /\ pc' = "check_data"
  /\ UNCHANGED committed
  /\ ExecUnchanged
  /\ LlmFrameUnchanged

\* "Error executing SQL query" in str(data)
LooksLikeExecError(d) == Contains(Str(d), ExecErrorMarker)

\* the truth value of data, and the two lengths the scalar rule reads
IsEmpty(d) == IF d.kind = "str" THEN d.text = <<>> ELSE d.rows = <<>>
IsSingleValue(d) == d.kind = "rows" /\ Len(d.rows) = 1 /\ Len(d.rows[1]) = 1

\* sql_query_to_execute.lower().startswith("select * from employee")
IsSelectStar(stmt) == StartsWith(LowerStr(stmt), SelectStarPrefix)

\* pd.DataFrame(data, columns=...) raises ValueError unless every row has one value per column
FramesWith(rows, columns) == \A r \in 1..Len(rows) : Len(rows[r]) = Len(columns)

\* [f"Column_{i+1}" for i in range(len(data[0]))]
InferredColumns(rows) == [i \in 1..Len(rows[1]) |-> "Column_" \o ToString(i)]

ShapeUnchanged == UNCHANGED <<conn, ask_ai_button, ai_question, response_from_llm, sql_query_to_execute, exec_conn, executed, store_failed, committed, data, roster_rendered>>

\* st.error(data)
ReportExecutionError ==
  /\ pc = "check_data"
  /\ LooksLikeExecError(data)
  /\ ui' = ui \cup {"error_exec"}
  /\ pc' = "roster"
  /\ UNCHANGED <<presentation, raised>>
  /\ ShapeUnchanged
  /\ LlmFrameUnchanged

\* st.info("No data found for your AI query.")
ShowNoData ==
  /\ pc = "check_data"
  /\ ~LooksLikeExecError(data)
  /\ IsEmpty(data)
  /\ presentation' = [kind |-> "nodata", value |-> <<>>, headers |-> <<>>, rows |-> <<>>]
  /\ ui' = ui \cup {"subheader_ai_answer", "info_no_data"}
  /\ pc' = "roster"
  /\ UNCHANGED raised
  /\ ShapeUnchanged
  /\ LlmFrameUnchanged

\* st.success(f"The answer is: **{data[0][0]}**")
ShowScalar ==
  /\ pc = "check_data"
  /\ ~LooksLikeExecError(data)
  /\ ~IsEmpty(data)
  /\ IsSingleValue(data)
  /\ presentation' = [kind |-> "scalar", value |-> data.rows[1][1], headers |-> <<>>, rows |-> <<>>]
  /\ ui' = ui \cup {"subheader_ai_answer", "success_answer"}
  /\ pc' = "roster"
  /\ UNCHANGED raised
  /\ ShapeUnchanged
  /\ LlmFrameUnchanged

\* df_ai_results = pd.DataFrame(data, columns=columns); st.dataframe(df_ai_results)
ShowEmployeeTable ==
  /\ pc = "check_data"
  /\ ~LooksLikeExecError(data)
  /\ ~IsEmpty(data)
  /\ ~IsSingleValue(data)
  /\ IsSelectStar(sql_query_to_execute)
  /\ FramesWith(data.rows, CanonicalColumns)
  /\ presentation' = [kind |-> "table", value |-> <<>>, headers |-> CanonicalColumns, rows |-> data.rows]
  /\ ui' = ui \cup {"subheader_ai_answer", "dataframe"}
  /\ pc' = "roster"
  /\ UNCHANGED raised
  /\ ShapeUnchanged
  /\ LlmFrameUnchanged

\* pd.DataFrame(data, columns=columns) raises ValueError; nothing catches it before the finally
EmployeeTableRaises ==
  /\ pc = "check_data"
  /\ ~LooksLikeExecError(data)
  /\ ~IsEmpty(data)
  /\ ~IsSingleValue(data)
  /\ IsSelectStar(sql_query_to_execute)
  /\ ~FramesWith(data.rows, CanonicalColumns)
  /\ raised' = TRUE
  /\ ui' = ui \cup {"subheader_ai_answer"}
  /\ pc' = "finally"
  /\ UNCHANGED presentation
  /\ ShapeUnchanged
  /\ LlmFrameUnchanged

\* df_ai_results = pd.DataFrame(data, columns=inferred_columns); st.dataframe(df_ai_results)
ShowGenericTable ==
  /\ pc = "check_data"
  /\ ~LooksLikeExecError(data)
  /\ ~IsEmpty(data)
  /\ ~IsSingleValue(data)
  /\ ~IsSelectStar(sql_query_to_execute)
  /\ FramesWith(data.rows, InferredColumns(data.rows))
  /\ presentation' = [kind |-> "table", value |-> <<>>, headers |-> InferredColumns(data.rows), rows |-> data.rows]
  /\ ui' = ui \cup {"subheader_ai_answer", "dataframe"}
  /\ pc' = "roster"
  /\ UNCHANGED raised
  /\ ShapeUnchanged
  /\ LlmFrameUnchanged

\* employee_rows = get_all_employees(conn) and its display
RenderRoster ==
  /\ pc = "roster"
  /\ conn = "open"
  /\ roster_rendered' = TRUE
  /\ ui' = ui \cup {"subheader_roster"}
  /\ pc' = "finally"
  /\ UNCHANGED <<conn, ask_ai_button, ai_question, response_from_llm, sql_query_to_execute, exec_conn, executed, store_failed, committed, data, presentation, raised>>
  /\ LlmFrameUnchanged

\* finally: conn.close()
PageFinally == "closed"

\* the finally block; a raised exception then ends the run
CloseConnection ==
  /\ pc = "finally"
  /\ conn' = PageFinally
  /\ pc' = IF raised THEN "aborted" ELSE "done"
  /\ UNCHANGED <<ask_ai_button, ai_question, response_from_llm, sql_query_to_execute, exec_conn, executed, store_failed, committed, data, presentation, ui, raised, roster_rendered>>
  /\ LlmFrameUnchanged

\* one run of the page script, with the widget values of this run
Init ==
  /\ pc = "start"
  /\ conn = "none"
  /\ ask_ai_button \in BOOLEAN
  /\ ai_question \in Questions
  /\ retries = 0
  /\ delay = 0
  /\ max_retries = 0
  /\ result = <<>>
  /\ events = <<>>
  /\ llm_outcome = "none"
  /\ response_from_llm = <<>>
  /\ sql_query_to_execute = <<>>
  /\ exec_conn = "none"
  /\ executed = {}
  /\ store_failed = FALSE
  /\ committed = FALSE
  /\ data = NoData
  /\ presentation = NoPresentation
  /\ ui = {}
  /\ raised = FALSE
  /\ roster_rendered = FALSE

Next ==
  \/ CreateConnection
  \/ ConnectionFails
  \/ AskAi
  \/ WarnNoQuestion
  \/ SkipAiForm
  \/ CompletionSucceeds
  \/ CompletionRateLimited
  \/ Sleep
  \/ CompletionFails
  \/ ReturnFromLlm
  \/ ReportLlmFailure
  \/ WarnInvalidStatement
  \/ CallExecuteSqlQuery
  \/ ExecuteSucceeds
  \/ ExecuteFails
  \/ ReportExecutionError
  \/ ShowNoData
  \/ ShowScalar
  \/ ShowEmployeeTable
  \/ EmployeeTableRaises
  \/ ShowGenericTable
  \/ RenderRoster
  \/ CloseConnection

Spec == Init /\ [][Next]_vars

----------------------------------------------------------------------------
(* Properties of get_llm_response (under SpecAsk) and of the page (under Spec) *)

\* the completion calls logged so far, and those among them that were rate-limited
Calls(ev) == {i \in 1..Len(ev) : ev[i].op = "call"}
RateLimitedCalls(ev) == {i \in Calls(ev) : ev[i].out = "RateLimitError"}

\* every logged call either answered or was rate-limited
OnlyRateLimits(ev) == \A i \in Calls(ev) : ev[i].out \in {"ok", "RateLimitError"}

\* the same log without the exception messages
Shape(ev) == [i \in 1..Len(ev) |-> [op |-> ev[i].op, out |-> ev[i].out, d |-> ev[i].d]]

\* k rate-limited calls, each followed by its sleep: call, sleep 2, call, sleep 4, ..., call, sleep 2^k
BackoffLog(k) == [i \in 1..(2 * k) |-> IF i % 2 = 1 THEN [op |-> "call", out |-> "RateLimitError", d |-> 0] ELSE [op |-> "sleep", out |-> "", d |-> 2 ^ (i \div 2)]]

\* the model call is in progress: from the first attempt until get_llm_response returns
InModelCall == pc \in {"attempt", "sleep", "llm_return"}

\* the page has decided what to do with the value get_llm_response returned
Interpreted == llm_outcome # "none" /\ pc \in {"exec", "check_data", "roster", "finally", "done", "aborted"}

\* the page is past the display of the executor's result
PastResult == executed # {} /\ pc \in {"roster", "finally", "done", "aborted"}

\* C1: when completion is rate-limited k times and then answers, get_llm_response
\* returns the model text after k+1 calls and k sleeps of 2, 4, ..., 2^k, each sleep
\* between two calls, if k < max_retries; if k reaches max_retries it returns the
\* exhausted error after exactly max_retries calls; it never calls more than
\* max_retries times.
C1_RetrySchedule ==
  /\ Cardinality(Calls(events)) <= max_retries
  /\ (pc = "llm_return" /\ OnlyRateLimits(events)) =>
       LET k == Cardinality(RateLimitedCalls(events)) IN
         /\ k < max_retries =>
              /\ llm_outcome = "Success"
              /\ result \in ModelTexts
              /\ Shape(events) = BackoffLog(k) \o <<[op |-> "call", out |-> "ok", d |-> 0]>>
         /\ k >= max_retries =>
              /\ llm_outcome = "Exhausted"
              /\ result = ExhaustedMessage(events[Len(events)].msg)
              /\ Shape(events) = SubSeq(BackoffLog(max_retries), 1, 2 * max_retries - 1)

\* C1 witness: an answer after three rate-limited calls, with a budget that allows more
C1_Witness == pc = "llm_return" /\ llm_outcome = "Success" /\ Cardinality(RateLimitedCalls(events)) = 3 /\ max_retries > 4

\* C2: a completion call that fails with anything but rate limiting is the last
\* thing get_llm_response does: it is the last entry of the log (no call and no
\* sleep follows), and the function is returning the fatal error with the detail
\* of that failure, at whatever attempt and after however many rate-limited calls.
C2_FatalEndsAtOnce ==
  \A i \in Calls(events) :
    events[i].out \notin {"ok", "RateLimitError"} =>
      /\ i = Len(events)
      /\ pc = "llm_return"
      /\ llm_outcome = "Fatal"
      /\ result = FatalMessage(events[i].msg)

\* C2 witness: a fatal failure at the third attempt, after two rate-limited calls
C2_Witness == pc = "llm_return" /\ llm_outcome = "Fatal" /\ Cardinality(RateLimitedCalls(events)) = 2 /\ Len(events) = 5

\* C3: the executor only ever receives statements that start with one of the four
\* verbs, and every model text whose statement does not start with one of them ends
\* in the guidance warning without a call of the executor.
C3_OnlyTypedStatementsRun ==
  /\ \A stmt \in executed : HasStatementVerb(Strip(stmt))
  /\ (Interpreted /\ llm_outcome = "Success" /\ ~HasStatementVerb(sql_query_to_execute)) =>
       ("warning_invalid_sql" \in ui /\ executed = {})

\* C4: when get_llm_response ended in Fatal or Exhausted, whatever the error detail,
\* the page shows the upstream failure and hands nothing to the executor.
C4_FailureNeverExecuted ==
  (Interpreted /\ llm_outcome \in {"Fatal", "Exhausted"}) =>
    ("error_llm_failure" \in ui /\ executed = {})

\* C5: a submitted question that is empty or only whitespace gets the validation
\* warning, and neither the completion endpoint nor the executor is called.
C5_BlankQuestionNoCall ==
  (ask_ai_button /\ Strip(ai_question) = <<>>) =>
    /\ ~InModelCall
    /\ "spinner_attempt" \notin ui
    /\ executed = {}
    /\ (conn # "none" /\ pc \in {"roster", "finally", "done"}) => "warning_enter_question" \in ui

\* where the content of a fenced block that opens at i starts: after the optional sql tag
ContentStart(s, i) == IF TagAt(s, i + 3) THEN i + 6 ELSE i + 3

\* a block opened by ``` (tag optional) at i is closed by a later ```
FencedAt(s, i) == FenceAt(s, i) /\ \E e \in SkipSpace(s, ContentStart(s, i))..(Len(s) + 1) : ClosesAt(s, e)

\* the trimmed inner content of the first such block, or the trimmed whole text
FencedOrWhole(s) ==
  LET opens == {i \in 1..Len(s) : FencedAt(s, i)} IN
    IF opens = {} THEN Strip(s)
    ELSE LET j == SkipSpace(s, ContentStart(s, Min(opens))) IN
         LET e == Min({x \in j..(Len(s) + 1) : ClosesAt(s, x)}) IN Strip(SubSeq(s, j, e - 1))

\* C6: the statement extracted from a model text is the trimmed inner content of
\* its first block fenced by triple backticks, the sql tag being optional, and
\* the trimmed whole text when there is no such block.
C6_ExtractsFencedOrWhole ==
  (Interpreted /\ llm_outcome = "Success") => sql_query_to_execute = FencedOrWhole(response_from_llm)

\* the shaping step ran on the rows of a successful statement
Shaped == PastResult /\ data.kind = "rows" /\ "subheader_ai_answer" \in ui

\* C7: the shaping step presents by the first rule that matches: no rows, the
\* no-data marker; one row of one value, that value as a scalar; a SELECT * FROM
\* EMPLOYEE statement, a table under the nine canonical headers; anything else, a
\* table under Column_1..Column_w, w the width of the first row.
C7_ShapingRules ==
  Shaped =>
    IF data.rows = <<>> THEN presentation.kind = "nodata"
    ELSE IF Len(data.rows) = 1 /\ Len(data.rows[1]) = 1 THEN presentation.kind = "scalar" /\ presentation.value = data.rows[1][1]
    ELSE IF IsSelectStar(sql_query_to_execute) THEN presentation.kind = "table" /\ presentation.headers = CanonicalColumns /\ presentation.rows = data.rows
    ELSE presentation.kind = "table" /\ presentation.headers = [i \in 1..Len(data.rows[1]) |-> "Column_" \o ToString(i)] /\ presentation.rows = data.rows

\* C8 as stated: no connection to the store is open while the model call is in progress
C8_NoConnectionDuringModelCall == InModelCall => (conn # "open" /\ exec_conn # "open")

\* C8 amended: the executor's connection is open only inside execute_sql_query,
\* hence never during the model call and never after the executor returned; the
\* page connection is open throughout the model call, backoff sleeps included,
\* and is closed when the run ends.
C8_ConnectionScopes ==
  /\ exec_conn = "open" => pc = "exec"
  /\ InModelCall => (exec_conn # "open" /\ conn = "open")
  /\ pc \in {"done", "aborted"} => (conn # "open" /\ exec_conn # "open")

\* C8 witness: a backoff sleep of the model call, with the page connection open
C8_Witness == pc = "sleep" /\ conn = "open" /\ exec_conn = "none" /\ delay > InitialDelay

\* C9: no failure of the AI-query flow escapes as an exception, and the roster
\* is rendered in every run that opened the page connection.
C9_FailuresNeverAbort ==
  /\ ~raised
  /\ pc # "aborted"
  /\ (pc = "done" /\ conn # "none") => roster_rendered

\* C10: the page reports an execution error exactly when the store failed, whatever
\* the rows of a successful statement hold; a failed statement is not committed
\* and the executor's connection is closed when it returns.
C10_ExecutionErrorIffStoreFailed ==
  /\ PastResult => ("error_exec" \in ui <=> store_failed)
  /\ store_failed => (~committed /\ exec_conn = "closed")

====
